---- MODULE Spec2Model ----
(***************************************************************************)
(* Model of the file clean-up script (src/main.py) and of its earlier     *)
(* library revision (src/lib.py).  Strings are sequences of one-character *)
(* strings, so that substring tests, replacements and path operations are *)
(* computed the way Python computes them.                                 *)
(***************************************************************************)
EXTENDS Integers, Sequences, FiniteSets, TLC

VARIABLES
    revision,          \* "main" (src/main.py) or "lib" (src/lib.py)
    scan_reversed,     \* the order in which the filesystem lists the entries of a directory
    ini,               \* the environment of the run: ini file, directories and their access
    configuration,     \* the Configuration object, NoValue before it is created
    fs,                \* the filesystem: path -> [content, mode, mtime]
    main_dir_files,    \* App.main_dir_files
    other_dirs_files,  \* App.other_dirs_files: one list per entry of other_dirs
    pc,                \* position of the run
    idx,               \* number of records of all_files() the current loop has consumed
    already_handled,   \* already_handled_hashes / already_handled_names
    prompt,            \* the pending get_input call, NoValue when none
    reprompted,        \* get_input has rejected an answer of the pending prompt
    returned,          \* what get_input has just returned, and its option list
    selection,         \* what _select_file_to_leave has just done: the list shown, the choice
    before,            \* the filesystem when the current stage started
    prompts,           \* number of prompts issued in the current stage
    mutated,           \* the stages of this run that changed the filesystem, in order
    error,             \* the exception that ended the run, "" if none
    run                \* number of the current invocation of main()

vars == <<revision, scan_reversed, ini, configuration, fs, main_dir_files, other_dirs_files, pc, idx,
          already_handled, prompt, reprompted, returned, selection, before, prompts,
          mutated, error, run>>

NoValue == [none |-> TRUE]

\* files in the initial filesystem
MaxFiles == 3

\* invocations of the script in the specification that runs it again
MaxRuns == 2

-----------------------------------------------------------------------------
(* Python strings and lists *)

\* the smaller of two integers
Min(a, b) == IF a < b THEN a ELSE b

\* s[i:] of Python, 0-based
Drop(s, i) == SubSeq(s, i + 1, Len(s))

\* s[:i] of Python
Take(s, i) == SubSeq(s, 1, Min(i, Len(s)))

\* s.startswith(t)
StartsWith(s, t) == Len(t) <= Len(s) /\ SubSeq(s, 1, Len(t)) = t

\* s.endswith(t)
EndsWith(s, t) == Len(t) <= Len(s) /\ SubSeq(s, Len(s) - Len(t) + 1, Len(s)) = t

\* t in s, for strings: t occurs in s as a contiguous substring
Contains(s, t) == \E i \in 0..(Len(s) - Len(t)) : SubSeq(s, i + 1, i + Len(t)) = t

\* the elements of a list
Range(l) == {l[i] : i \in 1..Len(l)}

\* x in l, for lists: x is an element of l
ListHas(l, x) == \E i \in 1..Len(l) : l[i] = x

RECURSIVE Replace(_, _, _)
\* s.replace(old, new): every non-overlapping occurrence, left to right (old non-empty)
Replace(s, old, new) ==
    IF s = <<>> THEN <<>>
    ELSE IF StartsWith(s, old) THEN new \o Replace(Drop(s, Len(old)), old, new)
    ELSE <<s[1]>> \o Replace(Drop(s, 1), old, new)

RECURSIVE Join(_, _)
\* sep.join(l)
Join(sep, l) ==
    IF l = <<>> THEN <<>>
    ELSE IF Len(l) = 1 THEN l[1]
    ELSE l[1] \o sep \o Join(sep, Tail(l))

RECURSIVE Strip(_)
\* s.strip(): leading and trailing blanks removed
Strip(s) ==
    IF s = <<>> THEN s
    ELSE IF s[1] = " " THEN Strip(Tail(s))
    ELSE IF s[Len(s)] = " " THEN Strip(SubSeq(s, 1, Len(s) - 1))
    ELSE s

Digits == <<"0", "1", "2", "3", "4", "5", "6", "7", "8", "9">>

\* value of a decimal digit character
DigitValue(c) == (CHOOSE i \in 1..10 : Digits[i] = c) - 1

RECURSIVE StrOfNat(_)
\* str(n) for n >= 0
StrOfNat(n) == IF n < 10 THEN <<Digits[n + 1]>> ELSE StrOfNat(n \div 10) \o <<Digits[(n % 10) + 1]>>

RECURSIVE IntOfDigits(_, _)
IntOfDigits(s, acc) ==
    IF s = <<>> THEN acc ELSE IntOfDigits(Tail(s), 10 * acc + DigitValue(s[1]))

\* int(s) succeeds for a stripped string, made of the characters of an option list, iff it
\* is a non-empty string of digits; otherwise int raises ValueError
IntParses(s) == s # <<>> /\ \A i \in 1..Len(s) : ListHas(Digits, s[i])

\* int(s) where it succeeds
PyInt(s) == IntOfDigits(s, 0)

-----------------------------------------------------------------------------
(* os.path *)

Sep == "/"

\* position of the last "/" of p, 0 if there is none
LastSep(p) == IF \E i \in 1..Len(p) : p[i] = Sep
              THEN CHOOSE i \in 1..Len(p) : p[i] = Sep /\ \A j \in (i + 1)..Len(p) : p[j] # Sep
              ELSE 0

\* os.path.basename(p)
Basename(p) == Drop(p, LastSep(p))

\* os.path.dirname(p), the head of os.path.split(p), for paths whose head is not the root "/"
Dirname(p) == IF LastSep(p) = 0 THEN <<>> ELSE Take(p, LastSep(p) - 1)

\* os.path.join(a, b) for a relative b
PathJoin(a, b) == IF a = <<>> \/ a[Len(a)] = Sep THEN a \o b ELSE a \o <<Sep>> \o b

\* path p lies under directory d
Under(d, p) == StartsWith(p, d \o <<Sep>>)

\* the directories that must exist for p to exist
ParentDirs(p) == {Take(p, i - 1) : i \in {j \in 2..Len(p) : p[j] = Sep}}

-----------------------------------------------------------------------------
(* Permission strings and modes *)

\* bit b (a power of two) of mode m
Bit(m, b) == (m \div b) % 2 = 1

\* stat.filemode(mode)[1:]
FileMode(m) ==
    << IF Bit(m, 256) THEN "r" ELSE "-",
       IF Bit(m, 128) THEN "w" ELSE "-",
       IF Bit(m, 2048) THEN (IF Bit(m, 64) THEN "s" ELSE "S") ELSE (IF Bit(m, 64) THEN "x" ELSE "-"),
       IF Bit(m, 32) THEN "r" ELSE "-",
       IF Bit(m, 16) THEN "w" ELSE "-",
       IF Bit(m, 1024) THEN (IF Bit(m, 8) THEN "s" ELSE "S") ELSE (IF Bit(m, 8) THEN "x" ELSE "-"),
       IF Bit(m, 4) THEN "r" ELSE "-",
       IF Bit(m, 2) THEN "w" ELSE "-",
       IF Bit(m, 512) THEN (IF Bit(m, 1) THEN "t" ELSE "T") ELSE (IF Bit(m, 1) THEN "x" ELSE "-") >>

\* the four assertions of permission_string_to_numeric
PermissionStringOk(p) ==
    /\ Len(p) = 9
    /\ \A k \in {0, 1, 3, 4, 6, 7} : p[k + 1] \in {"r", "w", "-"}
    /\ \A k \in {2, 5} : p[k + 1] \in {"x", "s", "-"}
    /\ p[9] \in {"x", "t", "-"}

\* permission_string_to_numeric setting the special bit of s and t without the execute bit
permission_string_to_numericMutant(p) ==
         (IF p[1] = "r" THEN 256 ELSE 0)
       + (IF p[2] = "w" THEN 128 ELSE 0)
       + (IF p[3] = "x" THEN 64 ELSE 0)
       + (IF p[3] = "s" THEN 2048 ELSE 0)
       + (IF p[4] = "r" THEN 32 ELSE 0)
       + (IF p[5] = "w" THEN 16 ELSE 0)
       + (IF p[6] = "x" THEN 8 ELSE 0)
       + (IF p[6] = "s" THEN 1024 ELSE 0)
       + (IF p[7] = "r" THEN 4 ELSE 0)
       + (IF p[8] = "w" THEN 2 ELSE 0)
       + (IF p[9] = "x" THEN 1 ELSE 0)
       + (IF p[9] = "t" THEN 512 ELSE 0)

\* permission_string_to_numeric(permissions) where its assertions hold
permission_string_to_numeric(p) ==
         (IF p[1] = "r" THEN 256 ELSE 0)
       + (IF p[2] = "w" THEN 128 ELSE 0)
       + (IF p[3] = "x" THEN 64 ELSE 0)
       + (IF p[3] = "s" THEN 64 + 2048 ELSE 0)
       + (IF p[4] = "r" THEN 32 ELSE 0)
       + (IF p[5] = "w" THEN 16 ELSE 0)
       + (IF p[6] = "x" THEN 8 ELSE 0)
       + (IF p[6] = "s" THEN 8 + 1024 ELSE 0)
       + (IF p[7] = "r" THEN 4 ELSE 0)
       + (IF p[8] = "w" THEN 2 ELSE 0)
       + (IF p[9] = "x" THEN 1 ELSE 0)
       + (IF p[9] = "t" THEN 1 + 512 ELSE 0)

-----------------------------------------------------------------------------
(* Files, FileDescription and the directory scan *)

\* hashlib.md5(content).hexdigest(): equal exactly for equal contents
md5(content) == <<"md5">> \o content

\* FileDescription.from_path(path)
from_path(f, path) ==
    [path |-> path,
     access_rights |-> FileMode(f[path].mode),
     md5_hash |-> md5(f[path].content),
     size |-> Len(f[path].content),
     modification_timestamp |-> f[path].mtime]

\* FileDescription.filename
filename(file) == Basename(file.path)

\* is_empty taking a file of one byte for empty
is_emptyMutant(file) == file.size <= 1

\* FileDescription.is_empty
is_empty(file) == file.size = 0

\* the characters in the order of their codes
CharOrder == <<" ", "*", "/", "0", "1", "2", "?", "Y", "[", "]", "_", "a", "b", "c", "d", "e", "m",
               "n", "x", "y", "z", "~">>

CharRank(c) == CHOOSE i \in 1..Len(CharOrder) : CharOrder[i] = c

RECURSIVE StrLess(_, _)
\* s sorts strictly before t
StrLess(s, t) ==
    IF t = <<>> THEN FALSE
    ELSE IF s = <<>> THEN TRUE
    ELSE IF s[1] = t[1] THEN StrLess(Tail(s), Tail(t))
    ELSE CharRank(s[1]) < CharRank(t[1])

\* the filesystem lists name s before name t: os.scandir gives the entries of a directory
\* in an order of the filesystem's choosing, here by name, rising or falling
ListedBefore(s, t) == IF scan_reversed THEN StrLess(t, s) ELSE StrLess(s, t)

\* os.walk lists p before q: a directory's files before those of its subdirectories,
\* and otherwise in the order the filesystem lists the entries
WalkLess(p, q) ==
    IF Dirname(p) = Dirname(q) THEN ListedBefore(Basename(p), Basename(q))
    ELSE IF Under(Dirname(p), q) THEN TRUE
    ELSE IF Under(Dirname(q), p) THEN FALSE
    ELSE ListedBefore(Dirname(p), Dirname(q))

RECURSIVE WalkSeq(_)
\* the paths of a set in walk order
WalkSeq(S) ==
    IF S = {} THEN <<>>
    ELSE LET first == CHOOSE p \in S : \A q \in S \ {p} : WalkLess(p, q)
         IN <<first>> \o WalkSeq(S \ {first})

\* list_files_in_directory(directory): paths relative to directory
list_files_in_directory(f, directory) ==
    LET found == WalkSeq({p \in DOMAIN f : Under(directory, p)})
    IN [i \in 1..Len(found) |-> Drop(found[i], Len(directory) + 1)]

\* FileDescription.from_directory(dir_path)
from_directory(f, dir_path) ==
    LET rel == list_files_in_directory(f, dir_path)
    IN [i \in 1..Len(rel) |-> from_path(f, PathJoin(dir_path, rel[i]))]

RECURSIVE Flatten(_)
Flatten(ll) == IF ll = <<>> THEN <<>> ELSE Head(ll) \o Flatten(Tail(ll))

\* os.remove(path) on filesystem f
Remove(f, path) == [p \in DOMAIN f \ {path} |-> f[p]]

\* a file written at path
Put(f, path, file) == [p \in DOMAIN f \cup {path} |-> IF p = path THEN file ELSE f[p]]

-----------------------------------------------------------------------------
(* Configuration *)

PyTrue == "PyTrue"
PyFalse == "PyFalse"
PyNone == "PyNone"

\* DefaultActions._parse_optional_flag accepts the flag
FlagParses(flag) == flag \in {"True", "False", "None"}

\* DefaultActions._parse_optional_flag(flag) where it does not raise
ParseOptionalFlag(flag) ==
    IF flag = "True" THEN PyTrue ELSE IF flag = "False" THEN PyFalse ELSE PyNone

ActionNames == {"copy", "delete", "replace_old_version", "replace_new_version",
                "set_default_attributes", "rename"}

\* DefaultActions.from_config(config) where no flag raises
from_config(actions) == [a \in ActionNames |-> ParseOptionalFlag(actions[a])]

\* DefaultActions.always_prompt() of main.py, DefaultActions.create() of lib.py
always_prompt == [a \in ActionNames |-> PyNone]

RECURSIVE Split(_, _)
\* s.split(sep) for a non-empty separator
Split(s, sep) ==
    IF \E i \in 0..(Len(s) - Len(sep)) : SubSeq(s, i + 1, i + Len(sep)) = sep
    THEN LET i == CHOOSE k \in 0..(Len(s) - Len(sep)) :
                      /\ SubSeq(s, k + 1, k + Len(sep)) = sep
                      /\ \A j \in 0..(k - 1) : SubSeq(s, j + 1, j + Len(sep)) # sep
         IN <<Take(s, i)>> \o Split(Drop(s, i + Len(sep)), sep)
    ELSE <<s>>

\* list(s): the characters of s, each a string
ListOfStr(s) == [i \in 1..Len(s) |-> <<s[i]>>]

\* Configuration.create validating the main directory only
CreateRaisesMutant(rev, env) ==
    \/ ~env.config_file_accessible
    \/ env.main_dir \notin env.valid_directories
    \/ rev = "main" /\ \E a \in ActionNames : ~FlagParses(env.actions[a])

\* Configuration.create raises ValueError
CreateRaises(rev, env) ==
    \/ ~env.config_file_accessible
    \/ \E path \in {env.main_dir} \cup Range(env.other_dirs) : path \notin env.valid_directories
    \/ rev = "main" /\ \E a \in ActionNames : ~FlagParses(env.actions[a])

\* the Configuration that Configuration.create returns
CreateConfiguration(rev, env) ==
    [main_dir |-> env.main_dir,
     other_dirs |-> env.other_dirs,
     default_file_access_rights |-> env.default_file_access_rights,
     problematic_chars |-> ListOfStr(env.problematic_chars),
     substitute_char |-> env.substitute_char,
     temp_file_suffixes |-> Split(env.temp_file_suffixes, <<",", " ">>),
     default_actions |-> IF rev = "main" THEN from_config(env.actions) ELSE env.default_actions]

-----------------------------------------------------------------------------
(* The App object *)

\* App.all_files(): main directory first, then the other directories in their order
all_files ==
    main_dir_files
    \o Flatten([i \in 1..Len(configuration.other_dirs) |->
                   other_dirs_files[configuration.other_dirs[i]]])

\* App.all_other_files(): pairs of directory and file
all_other_files ==
    Flatten([i \in 1..Len(configuration.other_dirs) |->
               LET d == configuration.other_dirs[i]
               IN [k \in 1..Len(other_dirs_files[d]) |->
                      [other_dir |-> d, file |-> other_dirs_files[d][k]]]])

\* App.load_file_info(), reading filesystem f
load_file_info(f) ==
    /\ main_dir_files' = from_directory(f, configuration.main_dir)
    /\ other_dirs_files' = [d \in Range(configuration.other_dirs) |-> from_directory(f, d)]

\* App.run with handle_same_names called before handle_duplicates
RunOrderMutant == <<"empty", "temp", "names", "dups", "perms", "rename", "merge">>

\* the handlers in the order App.run calls them
RunOrder == <<"empty", "temp", "dups", "names", "perms", "rename", "merge">>

\* the position App.run reaches after handler s
NextStage(s) ==
    LET i == CHOOSE k \in 1..Len(RunOrder) : RunOrder[k] = s
    IN IF i < Len(RunOrder) THEN RunOrder[i + 1] ELSE "done"

\* the number the specification gives the stage of handler s
StageNumber(s) ==
    CASE s = "empty" -> 1 [] s = "temp" -> 2 [] s = "dups" -> 3 [] s = "names" -> 4
      [] s = "perms" -> 5 [] s = "rename" -> 6 [] s = "merge" -> 7 [] OTHER -> 0

\* the rendered option list of get_input: f"[{'/'.join(options)}]"
OptionsString(options) == <<"[">> \o Join(<<"/">>, options) \o <<"]">>

\* get_input returns choice: `choice in options`, where options is by then the rendered string
InputAccepted(choice, options) == Contains(OptionsString(options), choice)

\* [str(idx) for idx in range(n)]
IndexOptions(n) == [i \in 1..n |-> StrOfNat(i - 1)]

YesNo == <<<<"Y">>, <<"n">>>>

MoveCopy == <<<<"m">>, <<"c">>>>

-----------------------------------------------------------------------------
(* Filesystem operations: the resulting filesystem and the exception raised, "" if none *)

Ok(f) == [fs |-> f, error |-> ""]
Raise(f, e) == [fs |-> f, error |-> e]

\* the directory of p gives no write permission: no entry can be removed from it or made
\* in it
WriteDenied(p) == Dirname(p) \in ini.read_only

\* os.remove(path)
os_remove(f, path) ==
    IF path \notin DOMAIN f THEN Raise(f, "FileNotFoundError")
    ELSE IF WriteDenied(path) THEN Raise(f, "PermissionError")
    ELSE Ok(Remove(f, path))

RECURSIVE RemoveEachMutant(_, _)
\* the loop going on to the other files after a failure, and raising at its end
RemoveEachMutant(f, files) ==
    IF files = <<>> THEN Ok(f)
    ELSE LET r == os_remove(f, files[1].path)
             rest == RemoveEachMutant(r.fs, Tail(files))
         IN IF r.error # "" THEN Raise(rest.fs, r.error) ELSE rest

RECURSIVE RemoveEach(_, _)
\* for file in files: os.remove(file.path)
RemoveEach(f, files) ==
    IF files = <<>> THEN Ok(f)
    ELSE LET r == os_remove(f, files[1].path)
         IN IF r.error # "" THEN r ELSE RemoveEach(r.fs, Tail(files))

\* os.chmod(path, mask)
os_chmod(f, path, mask) ==
    IF path \in DOMAIN f THEN Ok([f EXCEPT ![path].mode = mask])
    ELSE Raise(f, "FileNotFoundError")

\* os.path.isdir(p): the directories are those that hold a file
IsDir(f, p) == \E q \in DOMAIN f : Under(p, q)

\* os.rename(src, dst) of a file: a file at dst is replaced
os_rename(f, src, dst) ==
    IF src \notin DOMAIN f THEN Raise(f, "FileNotFoundError")
    ELSE IF src = dst THEN Ok(f)
    ELSE IF WriteDenied(src) \/ WriteDenied(dst) THEN Raise(f, "PermissionError")
    ELSE IF IsDir(f, dst) THEN Raise(f, "IsADirectoryError")
    ELSE Ok(Put(Remove(f, src), dst, f[src]))

\* the time a newly written file gets: later than every file present
Now(f) == IF DOMAIN f = {} THEN 1
          ELSE 1 + (CHOOSE t \in {f[p].mtime : p \in DOMAIN f} :
                        \A q \in DOMAIN f : f[q].mtime <= t)

\* shutil.copy(src, dst): content and permission bits, not the times; into dst when dst is
\* a directory
shutil_copy(f, src, dst) ==
    LET real_dst == IF IsDir(f, dst) THEN PathJoin(dst, Basename(src)) ELSE dst
    IN IF src \notin DOMAIN f THEN Raise(f, "FileNotFoundError")
       ELSE IF src = real_dst THEN Raise(f, "SameFileError")
       ELSE IF IsDir(f, real_dst) THEN Raise(f, "IsADirectoryError")
       ELSE IF real_dst \notin DOMAIN f /\ WriteDenied(real_dst) THEN Raise(f, "PermissionError")
       ELSE Ok(Put(f, real_dst, [f[src] EXCEPT !.mtime = Now(f)]))

\* shutil.move once the destination is settled: os.rename, and when that raises OSError a
\* copy with the times kept (copy2) followed by os.unlink of the source
MoveTo(f, src, real_dst) ==
    LET renamed == os_rename(f, src, real_dst)
    IN IF renamed.error \notin {"PermissionError", "FileNotFoundError"} THEN renamed
       ELSE IF src \notin DOMAIN f THEN Raise(f, "FileNotFoundError")
       ELSE IF real_dst \notin DOMAIN f /\ WriteDenied(real_dst) THEN Raise(f, "PermissionError")
       ELSE os_remove(Put(f, real_dst, f[src]), src)

\* shutil.move(src, dst) between files of one filesystem: into dst when dst is a directory,
\* where shutil.Error is raised if the name is taken
shutil_move(f, src, dst) ==
    IF IsDir(f, dst)
    THEN LET real_dst == PathJoin(dst, Basename(src))
         IN IF real_dst \in DOMAIN f \/ IsDir(f, real_dst) THEN Raise(f, "Error")
            ELSE MoveTo(f, src, real_dst)
    ELSE MoveTo(f, src, dst)

\* os.makedirs(directory, exist_ok=True): fails when a file is in the way
os_makedirs(f, directory) ==
    IF directory = <<>> THEN Raise(f, "FileNotFoundError")
    ELSE IF ParentDirs(directory) \cap DOMAIN f # {} THEN Raise(f, "NotADirectoryError")
    ELSE IF directory \in DOMAIN f THEN Raise(f, "FileExistsError")
    ELSE Ok(f)

-----------------------------------------------------------------------------
(* Steps of the run *)

cfgVars == <<revision, scan_reversed, ini, run>>
snapVars == <<main_dir_files, other_dirs_files>>

\* the run is at handler s, not stopped by an exception and not waiting for input
At(s) == pc = s /\ error = "" /\ prompt = NoValue

\* the handler of one record ends with filesystem result r; issued says whether a
\* filesystem mutation was called
Act(r, issued) ==
    /\ fs' = r.fs
    /\ error' = r.error
    /\ mutated' = IF issued /\ (r.error = "" \/ r.fs # fs) /\ ~EndsWith(mutated, <<StageNumber(pc)>>)
                  THEN Append(mutated, StageNumber(pc))
                  ELSE mutated
    /\ idx' = IF r.error = "" THEN idx + 1 ELSE idx
    /\ prompt' = NoValue
    /\ reprompted' = FALSE

\* the locals of the previous handler call are gone: the answer get_input returned and
\* the list _select_file_to_leave worked on
Forget == returned' = NoValue /\ selection' = NoValue

\* the handler of one record ends without touching the filesystem
Skip == Act(Ok(fs), FALSE)

\* the handler of one record calls get_input and blocks
Ask(p) ==
    /\ prompt' = p
    /\ prompts' = prompts + 1
    /\ UNCHANGED <<fs, error, mutated, idx, reprompted>>

\* get_input rejects the answer, prints the options and asks again
Reprompt ==
    /\ reprompted' = TRUE
    /\ UNCHANGED <<cfgVars, configuration, snapVars, fs, pc, idx, already_handled, prompt,
                   returned, selection, before, prompts, mutated, error>>

\* the loop of a handler is over: the handler returns and App.run goes on
EndStage(reload) ==
    /\ pc' = NextStage(pc)
    /\ idx' = 0
    /\ already_handled' = {}
    /\ before' = fs
    /\ prompts' = 0
    /\ IF reload THEN load_file_info(fs) ELSE UNCHANGED snapVars
    /\ Forget
    /\ UNCHANGED <<cfgVars, configuration, fs, prompt, reprompted, mutated, error>>

\* main(): Configuration.create(main_dir, other_dirs, config_path)
Create ==
    /\ pc = "create" /\ error = ""
    /\ IF CreateRaises(revision, ini)
       THEN error' = "ValueError" /\ UNCHANGED <<configuration, pc>>
       ELSE /\ configuration' = CreateConfiguration(revision, ini)
            /\ pc' = "init"
            /\ UNCHANGED error
    /\ UNCHANGED <<cfgVars, snapVars, fs, idx, already_handled, prompt, reprompted, returned,
                   selection, before, prompts, mutated>>

\* main(): App(config), whose constructor scans the directories; then app.run() starts
AppInit ==
    /\ pc = "init" /\ error = ""
    /\ load_file_info(fs)
    /\ pc' = RunOrder[1]
    /\ UNCHANGED <<cfgVars, configuration, fs, idx, already_handled, prompt, reprompted,
                   returned, selection, before, prompts, mutated, error>>

\* App.handle_delete(file) once should_delete is known
DeleteDecided(file, should_delete) ==
    IF should_delete THEN Act(os_remove(fs, file.path), TRUE) ELSE Skip

\* App.handle_delete(file)
handle_delete(file) ==
    LET should_delete == configuration.default_actions["delete"]
    IN IF should_delete = PyNone
       THEN Ask([kind |-> "delete", options |-> YesNo, file |-> file])
       ELSE DeleteDecided(file, should_delete = PyTrue) /\ UNCHANGED prompts

\* App.handle_delete_empty_files(): one iteration of its loop, or its end
handle_delete_empty_files ==
    /\ At("empty")
    /\ IF idx < Len(all_files)
       THEN /\ LET file == all_files[idx + 1]
               IN IF is_empty(file) THEN handle_delete(file) ELSE Skip /\ UNCHANGED prompts
            /\ Forget
            /\ UNCHANGED <<cfgVars, configuration, snapVars, pc, already_handled, before>>
       ELSE EndStage(TRUE)

\* is_temp_file looking for the suffix anywhere in the filename
is_temp_fileMutant(file) ==
    \E i \in 1..Len(configuration.temp_file_suffixes) :
        Contains(filename(file), configuration.temp_file_suffixes[i])

\* App.is_temp_file(file)
is_temp_file(file) ==
    \E i \in 1..Len(configuration.temp_file_suffixes) :
        EndsWith(filename(file), configuration.temp_file_suffixes[i])

\* App.handle_delete_temporary_files(): one iteration of its loop, or its end
handle_delete_temporary_files ==
    /\ At("temp")
    /\ IF idx < Len(all_files)
       THEN /\ LET file == all_files[idx + 1]
               IN IF is_temp_file(file) THEN handle_delete(file) ELSE Skip /\ UNCHANGED prompts
            /\ Forget
            /\ UNCHANGED <<cfgVars, configuration, snapVars, pc, already_handled, before>>
       ELSE EndStage(TRUE)

\* get_input returns to handle_delete
AnswerDelete(typed) ==
    /\ error = "" /\ prompt # NoValue /\ prompt.kind = "delete"
    /\ LET choice == Strip(typed)
       IN IF ~InputAccepted(choice, prompt.options) THEN Reprompt
          ELSE /\ returned' = [choice |-> choice, options |-> prompt.options]
               /\ DeleteDecided(prompt.file, choice = <<"Y">>)
               /\ selection' = NoValue
               /\ UNCHANGED <<cfgVars, configuration, snapVars, pc, already_handled,
                              before, prompts>>

\* get_all_files_by_hash without its filter
get_all_files_by_hashMutant(md5_hash) == all_files

\* App.get_all_files_by_hash(md5_hash)
get_all_files_by_hash(md5_hash) == SelectSeq(all_files, LAMBDA file : file.md5_hash = md5_hash)

\* App.get_all_files_by_name(name)
get_all_files_by_name(name) == SelectSeq(all_files, LAMBDA file : filename(file) = name)

\* the insertion of a sort that is not stable: x put before the elements of its timestamp
InsertByTimeMutant(l, x, reverse) ==
    LET After(e) == IF reverse THEN e.modification_timestamp <= x.modification_timestamp
                    ELSE e.modification_timestamp >= x.modification_timestamp
        k == IF \E i \in 1..Len(l) : After(l[i])
             THEN (CHOOSE i \in 1..Len(l) : After(l[i]) /\ \A j \in 1..(i - 1) : ~After(l[j])) - 1
             ELSE Len(l)
    IN SubSeq(l, 1, k) \o <<x>> \o SubSeq(l, k + 1, Len(l))

\* x put into the sorted list l behind the elements that do not sort after it, as the
\* stable list.sort does; reverse is the reverse=True of list.sort
InsertByTime(l, x, reverse) ==
    LET After(e) == IF reverse THEN e.modification_timestamp < x.modification_timestamp
                    ELSE e.modification_timestamp > x.modification_timestamp
        k == IF \E i \in 1..Len(l) : After(l[i])
             THEN (CHOOSE i \in 1..Len(l) : After(l[i]) /\ \A j \in 1..(i - 1) : ~After(l[j])) - 1
             ELSE Len(l)
    IN SubSeq(l, 1, k) \o <<x>> \o SubSeq(l, k + 1, Len(l))

RECURSIVE SortByTime(_, _)
\* files.sort(key=lambda f: f.modification_timestamp, reverse=reverse)
SortByTime(files, reverse) ==
    IF files = <<>> THEN <<>>
    ELSE InsertByTime(SortByTime(SubSeq(files, 1, Len(files) - 1), reverse),
                      files[Len(files)], reverse)

\* handle_duplicates: copies.sort(key=lambda f: f.modification_timestamp)
OldestFirst(copies) == SortByTime(copies, FALSE)

\* handle_same_names: copies.sort(key=lambda f: f.modification_timestamp, reverse=True)
NewestFirst(copies) == SortByTime(copies, TRUE)

\* copies[2:], an off-by-one slice
AllButFirstMutant(copies) == IF copies = <<>> THEN <<>> ELSE Tail(Tail(copies))

\* copies[1:], the files the non-interactive branch deletes
AllButFirst(copies) == Tail(copies)

\* files after files.pop(choice)
Pop(files, choice) == SubSeq(files, 1, choice) \o SubSeq(files, choice + 2, Len(files))

\* the paths of a list of files
Paths(files) == [i \in 1..Len(files) |-> files[i].path]

\* the body of the loops with `if policy is not None` for `if policy`
ResolveGroupMutant(found, sorted, policy) ==
    IF Len(found) = 1 THEN Skip /\ UNCHANGED prompts
    ELSE IF revision = "main" /\ policy # PyNone
         THEN Act(RemoveEach(fs, AllButFirst(sorted)), TRUE) /\ UNCHANGED prompts
    ELSE Ask([kind |-> "select",
              options |-> IndexOptions(Len(found)),
              files |-> IF revision = "main" THEN sorted ELSE found,
              displayed |-> Paths(sorted)])

\* the body of the loops of handle_duplicates and handle_same_names once the group of the
\* file is found: main.py sorts the group in place and consults the policy, lib.py lists a
\* sorted copy of it and always asks, handing over the unsorted group
ResolveGroup(found, sorted, policy) ==
    IF Len(found) = 1 THEN Skip /\ UNCHANGED prompts
    ELSE IF revision = "main" /\ policy = PyTrue
         THEN Act(RemoveEach(fs, AllButFirst(sorted)), TRUE) /\ UNCHANGED prompts
    ELSE Ask([kind |-> "select",
              options |-> IndexOptions(Len(found)),
              files |-> IF revision = "main" THEN sorted ELSE found,
              displayed |-> Paths(sorted)])

\* App.handle_duplicates(): one iteration of its loop, or its end
handle_duplicates ==
    /\ At("dups")
    /\ IF idx < Len(all_files)
       THEN /\ LET file == all_files[idx + 1]
               IN IF file.md5_hash \in already_handled
                  THEN Skip /\ UNCHANGED <<prompts, already_handled>>
                  ELSE /\ already_handled' = already_handled \cup {file.md5_hash}
                       /\ LET copies == get_all_files_by_hash(file.md5_hash)
                          IN ResolveGroup(copies, OldestFirst(copies),
                                 configuration.default_actions["replace_old_version"])
            /\ Forget
            /\ UNCHANGED <<cfgVars, configuration, snapVars, pc, before>>
       ELSE EndStage(TRUE)

\* App.handle_same_names(): one iteration of its loop, or its end
handle_same_names ==
    /\ At("names")
    /\ IF idx < Len(all_files)
       THEN /\ LET file == all_files[idx + 1]
               IN IF filename(file) \in already_handled
                  THEN Skip /\ UNCHANGED <<prompts, already_handled>>
                  ELSE /\ already_handled' = already_handled \cup {filename(file)}
                       /\ LET copies == get_all_files_by_name(filename(file))
                          IN ResolveGroup(copies, NewestFirst(copies),
                                 configuration.default_actions["replace_new_version"])
            /\ Forget
            /\ UNCHANGED <<cfgVars, configuration, snapVars, pc, before>>
       ELSE EndStage(TRUE)

\* get_input returns to App._select_file_to_leave(files)
AnswerSelect(typed) ==
    /\ error = "" /\ prompt # NoValue /\ prompt.kind = "select"
    /\ LET choice == Strip(typed)
       IN IF ~InputAccepted(choice, prompt.options) THEN Reprompt
          ELSE /\ returned' = [choice |-> choice, options |-> prompt.options]
               /\ IF ~IntParses(choice)
                  THEN Act(Raise(fs, "ValueError"), FALSE) /\ selection' = NoValue
                  ELSE IF PyInt(choice) >= Len(prompt.files)
                  THEN Act(Raise(fs, "IndexError"), FALSE) /\ selection' = NoValue
                  ELSE /\ Act(RemoveEach(fs, Pop(prompt.files, PyInt(choice))), TRUE)
                       /\ selection' = [displayed |-> prompt.displayed,
                                        choice |-> PyInt(choice),
                                        stage |-> pc]
               /\ UNCHANGED <<cfgVars, configuration, snapVars, pc, already_handled,
                              before, prompts>>

\* handle_change_access_rights applying the permissions the file has
ChmodDecidedMutant(file, should_change) ==
    IF ~should_change THEN Skip
    ELSE Act(os_chmod(fs, file.path, fs[file.path].mode), TRUE)

\* App.handle_change_access_rights(file) once should_change is known
ChmodDecided(file, should_change) ==
    LET defaults == configuration.default_file_access_rights
    IN IF ~should_change THEN Skip
       ELSE IF ~PermissionStringOk(defaults) THEN Act(Raise(fs, "AssertionError"), FALSE)
       ELSE Act(os_chmod(fs, file.path, permission_string_to_numeric(defaults)), TRUE)

\* App.handle_change_access_rights(file)
handle_change_access_rights(file) ==
    LET should_change == configuration.default_actions["set_default_attributes"]
    IN IF should_change = PyNone
       THEN Ask([kind |-> "chmod", options |-> YesNo, file |-> file])
       ELSE ChmodDecided(file, should_change = PyTrue) /\ UNCHANGED prompts

\* App.handle_non_standard_permissions(): one iteration of its loop, or its end; in lib.py
\* the loop is in App.run and no load_file_info follows it
handle_non_standard_permissions ==
    /\ At("perms")
    /\ IF idx < Len(all_files)
       THEN /\ LET file == all_files[idx + 1]
               IN IF file.access_rights # configuration.default_file_access_rights
                  THEN handle_change_access_rights(file)
                  ELSE Skip /\ UNCHANGED prompts
            /\ Forget
            /\ UNCHANGED <<cfgVars, configuration, snapVars, pc, already_handled, before>>
       ELSE EndStage(revision = "main")

\* get_input returns to handle_change_access_rights
AnswerChmod(typed) ==
    /\ error = "" /\ prompt # NoValue /\ prompt.kind = "chmod"
    /\ LET choice == Strip(typed)
       IN IF ~InputAccepted(choice, prompt.options) THEN Reprompt
          ELSE /\ returned' = [choice |-> choice, options |-> prompt.options]
               /\ ChmodDecided(prompt.file, choice = <<"Y">>)
               /\ selection' = NoValue
               /\ UNCHANGED <<cfgVars, configuration, snapVars, pc, already_handled,
                              before, prompts>>

\* App.is_name_problematic(filename)
is_name_problematic(name) ==
    \E i \in 1..Len(configuration.problematic_chars) :
        Contains(name, configuration.problematic_chars[i])

RECURSIVE ReplaceEach(_, _, _)
ReplaceEach(name, chars, substitute) ==
    IF chars = <<>> THEN name
    ELSE ReplaceEach(Replace(name, chars[1], substitute), Tail(chars), substitute)

\* clean_filename replacing the first of the problematic characters only
clean_filenameMutant(name) ==
    ReplaceEach(name, Take(configuration.problematic_chars, 1), configuration.substitute_char)

\* App.clean_filename(filename)
clean_filename(name) ==
    ReplaceEach(name, configuration.problematic_chars, configuration.substitute_char)

\* App.handle_rename(file) once should_rename is known
RenameDecided(file, should_rename) ==
    IF should_rename
    THEN Act(os_rename(fs, file.path,
                       PathJoin(Dirname(file.path), clean_filename(filename(file)))), TRUE)
    ELSE Skip

\* App.handle_rename(file)
handle_rename(file) ==
    LET should_rename == configuration.default_actions["rename"]
    IN IF should_rename = PyNone
       THEN Ask([kind |-> "rename", options |-> YesNo, file |-> file])
       ELSE RenameDecided(file, should_rename = PyTrue) /\ UNCHANGED prompts

\* App.handle_problematic_names(): one iteration of its loop, or its end
handle_problematic_names ==
    /\ At("rename")
    /\ IF idx < Len(all_files)
       THEN /\ LET file == all_files[idx + 1]
               IN IF is_name_problematic(filename(file))
                  THEN handle_rename(file)
                  ELSE Skip /\ UNCHANGED prompts
            /\ Forget
            /\ UNCHANGED <<cfgVars, configuration, snapVars, pc, already_handled, before>>
       ELSE EndStage(TRUE)

\* get_input returns to handle_rename
AnswerRename(typed) ==
    /\ error = "" /\ prompt # NoValue /\ prompt.kind = "rename"
    /\ LET choice == Strip(typed)
       IN IF ~InputAccepted(choice, prompt.options) THEN Reprompt
          ELSE /\ returned' = [choice |-> choice, options |-> prompt.options]
               /\ RenameDecided(prompt.file, choice = <<"Y">>)
               /\ selection' = NoValue
               /\ UNCHANGED <<cfgVars, configuration, snapVars, pc, already_handled,
                              before, prompts>>

\* the destination handle_move_all_files_to_main_dir computes for a file of other_dir
NewPath(file, other_dir) == Replace(file.path, other_dir, configuration.main_dir)

\* the move or copy of handle_move_all_files_to_main_dir once should_copy is known
MoveDecided(file, new_path, should_copy) ==
    IF should_copy THEN Act(shutil_copy(fs, file.path, new_path), TRUE)
    ELSE Act(shutil_move(fs, file.path, new_path), TRUE)

\* App.handle_move_all_files_to_main_dir(): one iteration of its loop, or its end
handle_move_all_files_to_main_dir ==
    /\ At("merge")
    /\ IF idx < Len(all_other_files)
       THEN /\ LET item == all_other_files[idx + 1]
                   new_path == NewPath(item.file, item.other_dir)
                   made == os_makedirs(fs, Dirname(new_path))
                   should_copy == configuration.default_actions["copy"]
               IN IF made.error # "" THEN Act(made, FALSE) /\ UNCHANGED prompts
                  ELSE IF should_copy = PyNone
                  THEN Ask([kind |-> "move", options |-> MoveCopy, file |-> item.file,
                            new_path |-> new_path])
                  ELSE MoveDecided(item.file, new_path, should_copy = PyTrue)
                       /\ UNCHANGED prompts
            /\ Forget
            /\ UNCHANGED <<cfgVars, configuration, snapVars, pc, already_handled, before>>
       ELSE EndStage(TRUE)

\* get_input returns to handle_move_all_files_to_main_dir
AnswerMove(typed) ==
    /\ error = "" /\ prompt # NoValue /\ prompt.kind = "move"
    /\ LET choice == Strip(typed)
       IN IF ~InputAccepted(choice, prompt.options) THEN Reprompt
          ELSE /\ returned' = [choice |-> choice, options |-> prompt.options]
               /\ MoveDecided(prompt.file, prompt.new_path, choice = <<"c">>)
               /\ selection' = NoValue
               /\ UNCHANGED <<cfgVars, configuration, snapVars, pc, already_handled,
                              before, prompts>>

\* the script is started again on what the finished run left
Main ==
    /\ pc = "done" /\ error = "" /\ run < MaxRuns
    /\ run' = run + 1
    /\ pc' = "create"
    /\ configuration' = NoValue
    /\ main_dir_files' = <<>>
    /\ other_dirs_files' = <<>>
    /\ returned' = NoValue
    /\ selection' = NoValue
    /\ mutated' = <<>>
    /\ before' = fs
    /\ UNCHANGED <<revision, scan_reversed, ini, fs, idx, already_handled, prompt, reprompted,
                   prompts, error>>

-----------------------------------------------------------------------------
(* Initial states *)

MainDir == <<"m">>
AuxDir == <<"a">>

DefaultRights == <<"r", "w", "-", "r", "-", "-", "r", "-", "-">>

\* the modes of the files at the start: that of the configured rights, and rw-------
DefaultMode == permission_string_to_numeric(DefaultRights)
OtherMode == permission_string_to_numeric(<<"r", "w", "-", "-", "-", "-", "-", "-", "-">>)

\* paths whose files take every combination of content and time
CorePaths == {<<"m", "/", "x">>, <<"m", "/", "d", "/", "x">>, <<"a", "/", "x">>}

TempPath == <<"m", "/", "y", "~">>
ProblematicPath == <<"a", "/", "*">>

\* a temporary file, and a file with a problematic name and other permissions
ExtraFiles ==
    [p \in {TempPath, ProblematicPath} |->
        [content |-> <<"Y">>,
         mode |-> IF p = TempPath THEN DefaultMode ELSE OtherMode,
         mtime |-> 2]]

Contents == {<<>>, <<"X">>, <<"Y">>}
Times == {1, 2, 3}

\* the filesystems at the start: at most MaxFiles files
FileSystems ==
    UNION {
      UNION {
        { [p \in C \cup E |-> IF p \in C THEN core[p] ELSE ExtraFiles[p]] :
            core \in [C -> [content : Contents, mode : {DefaultMode}, mtime : Times]] }
        : E \in { E \in SUBSET DOMAIN ExtraFiles : Cardinality(C) + Cardinality(E) <= MaxFiles } }
      : C \in SUBSET CorePaths }

Uniform(flag) == [a \in ActionNames |-> flag]

\* a valid environment with the given flags
Environment(actions) ==
    [config_file_accessible |-> TRUE,
     valid_directories |-> {MainDir, AuxDir},
     main_dir |-> MainDir,
     other_dirs |-> <<AuxDir>>,
     actions |-> actions,
     default_actions |-> always_prompt,
     read_only |-> {},
     default_file_access_rights |-> DefaultRights,
     problematic_chars |-> <<"*">>,
     substitute_char |-> <<"_">>,
     temp_file_suffixes |-> <<"~">>]

\* every flag True, but files are not deleted as empty or temporary, and are moved
KeepAndMove == [Uniform("True") EXCEPT !["delete"] = "False", !["copy"] = "False"]

ValidEnvironments ==
    {Environment(Uniform(flag)) : flag \in {"True", "False", "None"}}
    \cup {Environment(KeepAndMove)}

\* environments that the specification calls configuration errors
InvalidEnvironments ==
    {[Environment(Uniform("True")) EXCEPT !.config_file_accessible = FALSE],
     [Environment(Uniform("True")) EXCEPT !.valid_directories = {AuxDir}],
     [Environment(Uniform("True")) EXCEPT !.valid_directories = {MainDir}],
     [Environment(Uniform("True")) EXCEPT !.actions["rename"] = "Yes"],
     [Environment(Uniform("True")) EXCEPT
         !.default_file_access_rights = <<"r", "w", "-", "r", "-", "-", "r", "-">>]}

\* the DefaultActions that a caller hands to Configuration.create of lib.py: the one of
\* DefaultActions.create(), or one constructed with every flag True
CallerActions == {always_prompt, [a \in ActionNames |-> PyTrue]}

InitWith(rev, env, f) ==
    /\ revision = rev
    /\ scan_reversed \in BOOLEAN
    /\ ini = env
    /\ fs = f
    /\ configuration = NoValue
    /\ main_dir_files = <<>>
    /\ other_dirs_files = <<>>
    /\ pc = "create"
    /\ idx = 0
    /\ already_handled = {}
    /\ prompt = NoValue
    /\ reprompted = FALSE
    /\ returned = NoValue
    /\ selection = NoValue
    /\ before = f
    /\ prompts = 0
    /\ mutated = <<>>
    /\ error = ""
    /\ run = 1

Init ==
    \E f \in FileSystems :
        \/ \E env \in ValidEnvironments \cup InvalidEnvironments : InitWith("main", env, f)
        \/ \E given \in CallerActions :
              InitWith("lib", [Environment(Uniform("None")) EXCEPT !.default_actions = given], f)

\* what the user may type at a prompt
TypedInputs == {<<"Y">>, <<"n">>, <<"m">>, <<"c">>, <<"0">>, <<"1">>, <<"2">>, <<>>,
                <<"/">>, <<"[", "0">>, <<" ", "Y">>}

Next ==
    \/ Create
    \/ AppInit
    \/ handle_delete_empty_files
    \/ handle_delete_temporary_files
    \/ handle_duplicates
    \/ handle_same_names
    \/ handle_non_standard_permissions
    \/ handle_problematic_names
    \/ handle_move_all_files_to_main_dir
    \/ \E typed \in TypedInputs : AnswerDelete(typed)
    \/ \E typed \in TypedInputs : AnswerSelect(typed)
    \/ \E typed \in TypedInputs : AnswerChmod(typed)
    \/ \E typed \in TypedInputs : AnswerRename(typed)
    \/ \E typed \in TypedInputs : AnswerMove(typed)

Spec == Init /\ [][Next]_vars

\* the script run again and again, non-interactively, with every flag True
InitTwice == \E f \in FileSystems : InitWith("main", Environment(Uniform("True")), f)

NextTwice ==
    \/ Create
    \/ AppInit
    \/ handle_delete_empty_files
    \/ handle_delete_temporary_files
    \/ handle_duplicates
    \/ handle_same_names
    \/ handle_non_standard_permissions
    \/ handle_problematic_names
    \/ handle_move_all_files_to_main_dir
    \/ Main

SpecTwice == InitTwice /\ [][NextTwice]_vars

\* files for the merge: a nested file of the main directory, a file of the main directory,
\* and files of the other directory whose relative paths are the name of a directory of
\* the main directory, the name of the other directory, the name of the main directory,
\* and a path through a directory
MergePaths == {<<"m", "/", "d", "/", "x">>, <<"m", "/", "e">>, <<"a", "/", "d">>,
               <<"a", "/", "a">>, <<"a", "/", "m">>, <<"a", "/", "e", "/", "y">>}

\* filesystems in which no file is empty, temporary, a duplicate, a namesake, of other
\* permissions or of a problematic name: every file has its path as its content
MergeFileSystems ==
    {[p \in P |-> [content |-> p, mode |-> DefaultMode, mtime |-> 1]] : P \in SUBSET MergePaths}

\* main.py with the copy flag True, False or None
InitMerge ==
    \E f \in MergeFileSystems, copy \in {"True", "False", "None"} :
        InitWith("main", Environment([Uniform("False") EXCEPT !["copy"] = copy]), f)

NextMerge ==
    \/ Create
    \/ AppInit
    \/ handle_delete_empty_files
    \/ handle_delete_temporary_files
    \/ handle_duplicates
    \/ handle_same_names
    \/ handle_non_standard_permissions
    \/ handle_problematic_names
    \/ handle_move_all_files_to_main_dir
    \/ \E typed \in TypedInputs : AnswerMove(typed)

SpecMerge == InitMerge /\ [][NextMerge]_vars

\* files for the temporary-file stage, with the suffixes "~" and "y" configured: names that
\* end with a suffix, a name that is a suffix, a name that ends with the suffix in the
\* other case, and a name that holds the suffix but does not end with it
TempPaths == {<<"m", "/", "y", "~">>, <<"m", "/", "x", "y">>, <<"a", "/", "x", "Y">>,
              <<"a", "/", "y", "x">>, <<"a", "/", "y">>}

\* every file has its path as its content
TempFileSystems ==
    {[p \in P |-> [content |-> p, mode |-> DefaultMode, mtime |-> 1]] : P \in SUBSET TempPaths}

\* main.py with temp_file_suffixes = ~, y and the delete flag True, False or None
InitTemp ==
    \E f \in TempFileSystems, delete \in {"True", "False", "None"} :
        InitWith("main",
                 [Environment([Uniform("False") EXCEPT !["delete"] = delete])
                     EXCEPT !.temp_file_suffixes = <<"~", ",", " ", "y">>],
                 f)

NextTemp ==
    \/ Create
    \/ AppInit
    \/ handle_delete_empty_files
    \/ handle_delete_temporary_files
    \/ handle_duplicates
    \/ handle_same_names
    \/ handle_non_standard_permissions
    \/ handle_problematic_names
    \/ handle_move_all_files_to_main_dir
    \/ \E typed \in TypedInputs : AnswerDelete(typed)

SpecTemp == InitTemp /\ [][NextTemp]_vars

\* permission strings configured as the default: plain ones, one with setuid, setgid and
\* sticky, and one that passes the assertions with its r and w in each other's place
RightsStrings ==
    {DefaultRights,
     <<"-", "-", "-", "-", "-", "-", "-", "-", "-">>,
     <<"r", "w", "s", "r", "-", "s", "r", "-", "t">>,
     <<"w", "r", "-", "r", "-", "-", "r", "-", "-">>}

\* the modes of the files at the start
StartModes ==
    {DefaultMode, OtherMode,
     permission_string_to_numeric(<<"r", "w", "s", "r", "-", "s", "r", "-", "t">>)}

PermsPaths == {<<"m", "/", "x">>, <<"a", "/", "y">>}

\* every file has its path as its content, and one of the modes
PermsFileSystems ==
    UNION {{[p \in P |-> [content |-> p, mode |-> modes[p], mtime |-> 1]] :
               modes \in [P -> StartModes]} : P \in SUBSET PermsPaths}

\* main.py with the set_default_attributes flag True, False or None
InitPerms ==
    \E f \in PermsFileSystems, flag \in {"True", "False", "None"}, rights \in RightsStrings :
        InitWith("main",
                 [Environment([Uniform("False") EXCEPT !["set_default_attributes"] = flag])
                     EXCEPT !.default_file_access_rights = rights],
                 f)

NextPerms ==
    \/ Create
    \/ AppInit
    \/ handle_delete_empty_files
    \/ handle_delete_temporary_files
    \/ handle_duplicates
    \/ handle_same_names
    \/ handle_non_standard_permissions
    \/ handle_problematic_names
    \/ handle_move_all_files_to_main_dir
    \/ \E typed \in TypedInputs : AnswerChmod(typed)

SpecPerms == InitPerms /\ [][NextPerms]_vars

\* files for the name stage: names with one and with several problematic characters, in
\* the main directory, below it and in the other directory, and a name made of the
\* substitute character beside a name that is cleaned to it and in the main directory
NamePaths == {<<"m", "/", "*", "?">>, <<"m", "/", "d", "/", "x", "*", "x">>,
              <<"a", "/", "*">>, <<"a", "/", "_">>, <<"m", "/", "_">>}

\* every file has its path as its content
NameFileSystems ==
    {[p \in P |-> [content |-> p, mode |-> DefaultMode, mtime |-> 1]] : P \in SUBSET NamePaths}

\* the configured problematic_chars and substitute_char, the latter not among the former
NameSettings ==
    {[problematic_chars |-> chars, substitute_char |-> c] :
        chars \in {<<"*">>, <<"*", "?">>, <<"?", "*">>}, c \in {<<"_">>, <<"x">>}}

\* main.py with the rename flag True, False or None
InitNames ==
    \E f \in NameFileSystems, flag \in {"True", "False", "None"}, setting \in NameSettings :
        InitWith("main",
                 [Environment([Uniform("False") EXCEPT !["rename"] = flag])
                     EXCEPT !.problematic_chars = setting.problematic_chars,
                            !.substitute_char = setting.substitute_char],
                 f)

NextNames ==
    \/ Create
    \/ AppInit
    \/ handle_delete_empty_files
    \/ handle_delete_temporary_files
    \/ handle_duplicates
    \/ handle_same_names
    \/ handle_non_standard_permissions
    \/ handle_problematic_names
    \/ handle_move_all_files_to_main_dir
    \/ \E typed \in TypedInputs : AnswerRename(typed)

SpecNames == InitNames /\ [][NextNames]_vars

\* main.py with every flag True and a subdirectory of the main directory that gives no
\* write permission, so that os.remove fails on its files
InitFail ==
    \E f \in FileSystems :
        InitWith("main",
                 [Environment(Uniform("True")) EXCEPT !.read_only = {<<"m", "/", "d">>}], f)

NextFail ==
    \/ Create
    \/ AppInit
    \/ handle_delete_empty_files
    \/ handle_delete_temporary_files
    \/ handle_duplicates
    \/ handle_same_names
    \/ handle_non_standard_permissions
    \/ handle_problematic_names
    \/ handle_move_all_files_to_main_dir

SpecFail == InitFail /\ [][NextFail]_vars

\* the permission strings of the format rwxrwxrwx: r or -, w or -, and x, s or - for owner
\* and group, x, t or - for the others
FormatRights ==
    {<<r1, w1, x1, r2, w2, x2, r3, w3, x3>> :
        r1 \in {"r", "-"}, w1 \in {"w", "-"}, x1 \in {"x", "s", "-"},
        r2 \in {"r", "-"}, w2 \in {"w", "-"}, x2 \in {"x", "s", "-"},
        r3 \in {"r", "-"}, w3 \in {"w", "-"}, x3 \in {"x", "t", "-"}}

\* strings that pass the assertions with an r or a w in the other's place
SwappedRights ==
    {<<"w", "r", "-", "r", "-", "-", "r", "-", "-">>,
     <<"w", "-", "-", "-", "-", "-", "-", "-", "-">>,
     <<"r", "w", "x", "r", "r", "x", "r", "-", "x">>}

\* one file of the main directory with the permissions --x--x--x
RightsFileSystem ==
    [p \in {<<"m", "/", "x">>} |-> [content |-> <<"X">>, mode |-> 73, mtime |-> 1]]

\* main.py with every flag True and any of the permission strings as the default
InitRights ==
    \E rights \in FormatRights \cup SwappedRights :
        InitWith("main",
                 [Environment(Uniform("True")) EXCEPT !.default_file_access_rights = rights],
                 RightsFileSystem)

SpecRights == InitRights /\ [][NextFail]_vars

SubDir == <<"m", "/", "d">>

\* the roots given on the command line: the other directory apart from the main directory,
\* equal to it, inside it, around it, and listed twice
RootSettings ==
    {[main_dir |-> MainDir, other_dirs |-> <<AuxDir>>],
     [main_dir |-> MainDir, other_dirs |-> <<MainDir>>],
     [main_dir |-> MainDir, other_dirs |-> <<SubDir>>],
     [main_dir |-> SubDir, other_dirs |-> <<MainDir>>],
     [main_dir |-> MainDir, other_dirs |-> <<AuxDir, AuxDir>>]}

OverlapPaths == {<<"m", "/", "x">>, <<"m", "/", "d", "/", "y">>, <<"a", "/", "z">>}

\* every file is empty or has its path as its content
OverlapFileSystems ==
    UNION {{[p \in P |-> [content |-> IF p \in E THEN <<>> ELSE p, mode |-> DefaultMode,
                          mtime |-> 1]] : E \in SUBSET P} : P \in SUBSET OverlapPaths}

\* every flag True, or every flag False but replace_old_version, which is False or None
OverlapActions ==
    {Uniform("True"), Uniform("False"), [Uniform("False") EXCEPT !["replace_old_version"] = "None"]}

\* main.py on roots that need not be apart
InitOverlap ==
    \E f \in OverlapFileSystems, roots \in RootSettings, actions \in OverlapActions :
        InitWith("main",
                 [Environment(actions) EXCEPT !.main_dir = roots.main_dir,
                                              !.other_dirs = roots.other_dirs,
                                              !.valid_directories = {MainDir, AuxDir, SubDir}],
                 f)

NextOverlap ==
    \/ Create
    \/ AppInit
    \/ handle_delete_empty_files
    \/ handle_delete_temporary_files
    \/ handle_duplicates
    \/ handle_same_names
    \/ handle_non_standard_permissions
    \/ handle_problematic_names
    \/ handle_move_all_files_to_main_dir
    \/ \E typed \in TypedInputs : AnswerSelect(typed)

SpecOverlap == InitOverlap /\ [][NextOverlap]_vars

SecondAuxDir == <<"b">>

\* files of one filename in the main directory, below it, and in two other directories
TiePaths == {<<"m", "/", "x">>, <<"m", "/", "d", "/", "x">>, <<"a", "/", "x">>,
             <<"b", "/", "x">>}

\* files of two contents and two timestamps, so that files of one group have the timestamp
\* of each other
TieFileSystems ==
    UNION {[P -> [content : {<<"X">>, <<"Y">>}, mode : {DefaultMode}, mtime : {1, 2}]] :
              P \in SUBSET TiePaths}

\* main.py with every flag True and the two other directories in either order
InitTies ==
    \E f \in TieFileSystems, dirs \in {<<AuxDir, SecondAuxDir>>, <<SecondAuxDir, AuxDir>>} :
        InitWith("main",
                 [Environment(Uniform("True")) EXCEPT !.other_dirs = dirs,
                                                      !.valid_directories =
                                                          {MainDir, AuxDir, SecondAuxDir}],
                 f)

SpecTies == InitTies /\ [][NextFail]_vars

\* an empty file and two files of one content, all of one filename, or the one of them in
\* the other directory, with or without a temporary file and a file with a problematic name
\* and other permissions
LiveFileSystems ==
    {[p \in C \cup E |->
         IF p \in E THEN ExtraFiles[p]
         ELSE [content |-> IF p = <<"m", "/", "x">> THEN <<>> ELSE <<"X">>,
               mode |-> DefaultMode, mtime |-> 1]] :
        C \in {CorePaths, {<<"a", "/", "x">>}}, E \in {DOMAIN ExtraFiles, {}}}

\* main.py in the valid environments, and with every flag True and a default permission
\* string of eight characters, which Configuration.create accepts
InitLive ==
    \E f \in LiveFileSystems :
        \/ \E env \in ValidEnvironments : InitWith("main", env, f)
        \/ InitWith("main",
                    [Environment(Uniform("True")) EXCEPT
                        !.default_file_access_rights = <<"r", "w", "-", "r", "-", "-", "r", "-">>],
                    f)

\* get_input returns to the handler that called it
Answer(typed) ==
    \/ AnswerDelete(typed)
    \/ AnswerSelect(typed)
    \/ AnswerChmod(typed)
    \/ AnswerRename(typed)
    \/ AnswerMove(typed)

\* the user types one of the options of the prompt
Answered ==
    \E typed \in TypedInputs :
        /\ prompt # NoValue
        /\ ListHas(prompt.options, Strip(typed))
        /\ Answer(typed)

\* the user types what get_input rejects
Rejected ==
    \E typed \in TypedInputs :
        /\ prompt # NoValue
        /\ ~InputAccepted(Strip(typed), prompt.options)
        /\ Answer(typed)

NextLive ==
    \/ Create
    \/ AppInit
    \/ handle_delete_empty_files
    \/ handle_delete_temporary_files
    \/ handle_duplicates
    \/ handle_same_names
    \/ handle_non_standard_permissions
    \/ handle_problematic_names
    \/ handle_move_all_files_to_main_dir
    \/ Answered
    \/ Rejected

\* the interpreter goes on as long as the program has a step to take, and every prompt is
\* answered in the end with one of its options
SpecLive ==
    /\ InitLive /\ [][NextLive]_vars
    /\ WF_vars(Create) /\ WF_vars(AppInit)
    /\ WF_vars(handle_delete_empty_files) /\ WF_vars(handle_delete_temporary_files)
    /\ WF_vars(handle_duplicates) /\ WF_vars(handle_same_names)
    /\ WF_vars(handle_non_standard_permissions) /\ WF_vars(handle_problematic_names)
    /\ WF_vars(handle_move_all_files_to_main_dir)
    /\ WF_vars(Answered)

\* the values of temp_file_suffixes in the ini file: empty, a list with an empty entry, and
\* a list without one
SuffixSettings == {<<>>, <<"~", ",", " ", ",", " ", "y">>, <<"~">>}

\* main.py with one of these values and the delete flag True, False or None
InitSuffix ==
    \E f \in TempFileSystems, delete \in {"True", "False", "None"}, suffixes \in SuffixSettings :
        InitWith("main",
                 [Environment([Uniform("False") EXCEPT !["delete"] = delete])
                     EXCEPT !.temp_file_suffixes = suffixes],
                 f)

SpecSuffix == InitSuffix /\ [][NextTemp]_vars

-----------------------------------------------------------------------------
(* Properties *)

\* the loop of handler s has consumed every record and the handler is about to return
StageOver(s) == At(s) /\ idx = Len(all_files)

\* handler s is about to start iterating
StageStarts(s) == At(s) /\ idx = 0

\* the value of a flag of the configuration in use
Flag(a) == configuration.default_actions[a]

\* the files of filesystem f with the fingerprint of p
SameHash(f, p) == {q \in DOMAIN f : md5(f[q].content) = md5(f[p].content)}

\* the files of filesystem f with the filename of p
SameName(f, p) == {q \in DOMAIN f : Basename(q) = Basename(p)}

\* the files of G have pairwise distinct modification timestamps
DistinctTimes(f, G) == \A q, r \in G : q # r => f[q].mtime # f[r].mtime

\* C1: with replace_old_version True, when handle_duplicates has gone through its loop, of
\* every group of two or more files that had the same fingerprint and pairwise distinct
\* timestamps when it started, exactly the file with the least timestamp is left,
\* untouched, and the stage has issued no prompt.
C1_OldestDuplicateSurvives ==
    (StageOver("dups") /\ Flag("replace_old_version") = PyTrue) =>
        /\ prompts = 0
        /\ \A p \in DOMAIN before :
              LET G == SameHash(before, p)
              IN (Cardinality(G) >= 2 /\ DistinctTimes(before, G)) =>
                    \A q \in G :
                       /\ q \in DOMAIN fs <=> \A r \in G : before[q].mtime <= before[r].mtime
                       /\ q \in DOMAIN fs => fs[q] = before[q]

\* C1 for main.py alone
C1_MainRevision == revision = "main" => C1_OldestDuplicateSurvives

\* a group of three duplicates with distinct timestamps has been reduced to one file
C1_Witness ==
    /\ StageOver("dups") /\ Flag("replace_old_version") = PyTrue
    /\ \E p \in DOMAIN before :
          /\ Cardinality(SameHash(before, p)) = 3
          /\ DistinctTimes(before, SameHash(before, p))
          /\ Cardinality(SameHash(before, p) \cap DOMAIN fs) = 1

\* C2: with replace_new_version True, when handle_same_names has gone through its loop, of
\* every group of two or more files that had the same filename when it started, exactly
\* one file is left, untouched, no file of the group had a greater timestamp, and the
\* stage has issued no prompt.
C2_NewestNamesakeSurvives ==
    (StageOver("names") /\ Flag("replace_new_version") = PyTrue) =>
        /\ prompts = 0
        /\ \A p \in DOMAIN before :
              LET G == SameName(before, p)
              IN Cardinality(G) >= 2 =>
                    \E q \in G :
                       /\ G \cap DOMAIN fs = {q}
                       /\ fs[q] = before[q]
                       /\ \A r \in G : before[r].mtime <= before[q].mtime

\* C2 for main.py alone
C2_MainRevision == revision = "main" => C2_NewestNamesakeSurvives

\* a group of three files of one name and distinct timestamps has been reduced to one
C2_Witness ==
    /\ StageOver("names") /\ Flag("replace_new_version") = PyTrue
    /\ \E p \in DOMAIN before :
          /\ Cardinality(SameName(before, p)) = 3
          /\ DistinctTimes(before, SameName(before, p))
          /\ Cardinality(SameName(before, p) \cap DOMAIN fs) = 1

\* C3: when the script is run again after a run with every flag True, the second run
\* changes nothing in the filesystem.
C3_SecondRunChangesNothing == run >= 2 => mutated = <<>>

\* C4: App.run goes through the handlers in the order empty files, temporary files,
\* duplicates, same names, permissions, problematic names, merge; and a stage changes the
\* filesystem only if no later stage has changed it before.
C4_StagesInOrder ==
    [][/\ (pc' # pc /\ pc = "init") => StageNumber(pc') = 1
       /\ (pc' # pc /\ StageNumber(pc) > 0 /\ StageNumber(pc) < 7) =>
              StageNumber(pc') = StageNumber(pc) + 1
       /\ (pc' # pc /\ StageNumber(pc) = 7) => pc' = "done"
       /\ (mutated' # mutated /\ run' = run) =>
              /\ mutated' = Append(mutated, StageNumber(pc))
              /\ \A i \in 1..Len(mutated) : mutated[i] < StageNumber(pc)]_vars

\* a run is over in which four stages have changed the filesystem
C4_Witness == pc = "done" /\ Len(mutated) >= 4

\* the snapshot is what a scan of the filesystem gives now
SnapshotFresh ==
    /\ main_dir_files = from_directory(fs, configuration.main_dir)
    /\ \A d \in Range(configuration.other_dirs) : other_dirs_files[d] = from_directory(fs, d)

\* C5: whenever one of the seven stages is about to start iterating, the snapshot holds
\* exactly the files of the filesystem, each with its present permission string,
\* fingerprint, size and timestamp.
C5_SnapshotFreshAtStageStart ==
    \A s \in Range(RunOrder) : StageStarts(s) => SnapshotFresh

\* C5 for main.py alone
C5_MainRevision == revision = "main" => C5_SnapshotFreshAtStageStart

\* C6: when handle_duplicates has gone through its loop, whatever the flag and the
\* answers, no two files have the same fingerprint.
C6_OneFilePerFingerprint ==
    StageOver("dups") =>
        \A p, q \in DOMAIN fs : p # q => md5(fs[p].content) # md5(fs[q].content)

\* a group of three duplicates has been reduced to one file after a prompt
C6_Witness ==
    /\ StageOver("dups") /\ Flag("replace_old_version") # PyTrue /\ prompts >= 1
    /\ \E p \in DOMAIN before :
          /\ Cardinality(SameHash(before, p)) = 3
          /\ Cardinality(SameHash(before, p) \cap DOMAIN fs) = 1

\* the paths are listed by timestamp, falling if reverse and rising if not
ListedByTime(paths, reverse) ==
    \A i, j \in 1..Len(paths) :
        i < j => IF reverse THEN fs[paths[i]].mtime >= fs[paths[j]].mtime
                 ELSE fs[paths[i]].mtime <= fs[paths[j]].mtime

\* C7: the candidates of a survivor prompt are listed by timestamp, rising for duplicates
\* and falling for same names; and when get_input has returned index i, the file listed
\* at position i is left and the other candidates are deleted.
C7_ListedFileSurvives ==
    /\ (error = "" /\ prompt # NoValue /\ prompt.kind = "select") =>
           ListedByTime(prompt.displayed, pc = "names")
    /\ (error = "" /\ selection # NoValue) =>
           \A i \in 1..Len(selection.displayed) :
               selection.displayed[i] \in DOMAIN fs <=> i = selection.choice + 1

\* C7 for main.py alone
C7_MainRevision == revision = "main" => C7_ListedFileSurvives

\* C8: what get_input returns is one of the allowed options.
C8_ReturnsAllowedOption == returned # NoValue => ListHas(returned.options, returned.choice)

\* C9: no answer of the user ends the run with an exception.
C9_AnswersNeverAbort == returned # NoValue => error = ""

\* the run has ended with what the specification calls a configuration error
ConfigurationError ==
    \/ pc = "create" /\ error = "ValueError"
    \/ error = "AssertionError"

\* C10: a run that ends with a configuration error has not changed the filesystem.
C10_ConfigurationErrorBeforeMutation == ConfigurationError => mutated = <<>>

\* the file the merge stage is working on, and its directory
MergeItem == all_other_files[idx + 1]

\* the path of the main directory with the relative path of the item
MergeTarget(item) ==
    PathJoin(configuration.main_dir, Drop(item.file.path, Len(item.other_dir) + 1))

\* C11: whenever the merge stage changes the filesystem, the file it is working on, A/r,
\* is then found at main/r with its content, and no other path has been written.
C11_MergedToSamePathUnderMain ==
    [][(pc = "merge" /\ fs' # fs) =>
          LET src == MergeItem.file.path
              target == MergeTarget(MergeItem)
          IN /\ target \in DOMAIN fs'
             /\ fs'[target].content = fs[src].content
             /\ \A p \in DOMAIN fs' \ {target} : p \in DOMAIN fs /\ fs'[p] = fs[p]]_vars

\* the decision of the merge stage for the file it has just handled is to copy
CopyDecided == Flag("copy") = PyTrue \/ (Flag("copy") = PyNone /\ returned'.choice = <<"c">>)

\* the decision of the merge stage for the file it has just handled is to move
MoveWasDecided == Flag("copy") = PyFalse \/ (Flag("copy") = PyNone /\ returned'.choice = <<"m">>)

\* the merge stage has gone through its loop
MergeOver == At("merge") /\ idx = Len(all_other_files)

\* a file is under one of the other directories
InOtherDir(p) == \E d \in Range(configuration.other_dirs) : Under(d, p)

\* C12: a file the merge stage has moved is no longer in its directory and is a file at
\* its destination; a file it has copied is unchanged in its directory and is a file at
\* its destination.  The destination is taken as the path the stage computes for the file.
C12_MovedOrCopiedPerFile ==
    [][(pc = "merge" /\ fs' # fs) =>
          LET src == MergeItem.file.path
              target == NewPath(MergeItem.file, MergeItem.other_dir)
          IN /\ MoveWasDecided => (src \notin DOMAIN fs' /\ target \in DOMAIN fs')
             /\ CopyDecided => (src \in DOMAIN fs' /\ fs'[src] = fs[src] /\ target \in DOMAIN fs')
      ]_vars

\* C12, last sentence: with copy False, when the merge is over no file is left under the
\* other directories.
C12_NothingLeftBehind ==
    (MergeOver /\ Flag("copy") = PyFalse) => \A p \in DOMAIN fs : ~InOtherDir(p)

\* the files of filesystem f that hold no byte
EmptyFiles(f) == {p \in DOMAIN f : f[p].content = <<>>}

\* the record the loop of the current handler has just handled
Handled == all_files[idx]

\* C13: when the empty-file stage has gone through its loop: with delete True no empty file
\* is left and nothing was asked; with delete False nothing was deleted and nothing was
\* asked; with delete None get_input was called once for each empty file; and in every
\* case the files that were not empty are all there, untouched, and no file has appeared.
\* And when get_input has returned in this stage, the file asked about is gone if and only
\* if the answer was Y.
C13_EmptyFilesByPolicy ==
    /\ StageOver("empty") =>
          /\ Flag("delete") = PyTrue => (prompts = 0 /\ EmptyFiles(fs) = {})
          /\ Flag("delete") = PyFalse => (prompts = 0 /\ fs = before)
          /\ Flag("delete") = PyNone => prompts = Cardinality(EmptyFiles(before))
          /\ DOMAIN fs \subseteq DOMAIN before
          /\ \A p \in DOMAIN before \ EmptyFiles(before) : p \in DOMAIN fs /\ fs[p] = before[p]
    /\ (pc = "empty" /\ returned # NoValue) =>
          /\ error = ""
          /\ Handled.path \in EmptyFiles(before)
          /\ Handled.path \notin DOMAIN fs <=> returned.choice = <<"Y">>

\* the stage has asked about two empty files, deleted one and left the other, beside a
\* file that is not empty
C13_Witness ==
    /\ StageOver("empty") /\ Flag("delete") = PyNone /\ prompts = 2
    /\ EmptyFiles(before) \cap DOMAIN fs # {}
    /\ EmptyFiles(before) \ DOMAIN fs # {}
    /\ DOMAIN before \ EmptyFiles(before) # {}

\* the filename of p ends with one of the configured suffixes
EndsWithSuffix(p) ==
    \E i \in 1..Len(configuration.temp_file_suffixes) :
        EndsWith(Basename(p), configuration.temp_file_suffixes[i])

\* the files of filesystem f whose filename ends with a configured suffix
TemporaryFiles(f) == {p \in DOMAIN f : EndsWithSuffix(p)}

\* C14: when the temporary-file stage has gone through its loop: with delete True no file
\* whose filename ends with a configured suffix is left and nothing was asked; with delete
\* False nothing was deleted and nothing was asked; with delete None get_input was called
\* once for each such file; and in every case the files whose filename ends with no suffix
\* are all there, untouched, and no file has appeared.  And when get_input has returned
\* in this stage, it was about such a file, which is gone if and only if the answer was Y.
C14_TemporaryFilesByPolicy ==
    /\ StageOver("temp") =>
          /\ Flag("delete") = PyTrue => (prompts = 0 /\ TemporaryFiles(fs) = {})
          /\ Flag("delete") = PyFalse => (prompts = 0 /\ fs = before)
          /\ Flag("delete") = PyNone => prompts = Cardinality(TemporaryFiles(before))
          /\ DOMAIN fs \subseteq DOMAIN before
          /\ \A p \in DOMAIN before \ TemporaryFiles(before) : p \in DOMAIN fs /\ fs[p] = before[p]
    /\ (pc = "temp" /\ returned # NoValue) =>
          /\ error = ""
          /\ Handled.path \in TemporaryFiles(before)
          /\ Handled.path \notin DOMAIN fs <=> returned.choice = <<"Y">>

\* with delete True the stage has deleted y~, xy and y, and left xY and yx
C14_Witness ==
    /\ StageOver("temp") /\ Flag("delete") = PyTrue
    /\ DOMAIN before = TempPaths
    /\ DOMAIN fs = {<<"a", "/", "x", "Y">>, <<"a", "/", "y", "x">>}

\* a permission string of the form the specification gives: r or -, w or -, x, s or - for
\* owner and group, and r or -, w or -, x, t or - for the others
WellFormedRights(p) ==
    /\ Len(p) = 9
    /\ \A k \in {1, 4, 7} : p[k] \in {"r", "-"}
    /\ \A k \in {2, 5, 8} : p[k] \in {"w", "-"}
    /\ \A k \in {3, 6} : p[k] \in {"x", "s", "-"}
    /\ p[9] \in {"x", "t", "-"}

\* the files of filesystem f whose permission string is not the configured default
NonDefaultFiles(f) ==
    {p \in DOMAIN f : FileMode(f[p].mode) # configuration.default_file_access_rights}

\* C15: with a well-formed default permission string, when the permission stage has gone
\* through its loop: with set_default_attributes True every file has the default
\* permission string and nothing was asked; with False nothing has changed and nothing
\* was asked; with None get_input was called once for each file of other permissions;
\* and in every case the files that had the default permissions are untouched and no
\* content, time or path has changed.  And when get_input has returned in this stage, it
\* was about a file of other permissions, whose mode has changed if and only if the
\* answer was Y.
C15_PermissionsByPolicy ==
    WellFormedRights(ini.default_file_access_rights) =>
    /\ StageOver("perms") =>
          /\ Flag("set_default_attributes") = PyTrue =>
                (prompts = 0 /\ NonDefaultFiles(fs) = {})
          /\ Flag("set_default_attributes") = PyFalse => (prompts = 0 /\ fs = before)
          /\ Flag("set_default_attributes") = PyNone =>
                prompts = Cardinality(NonDefaultFiles(before))
          /\ DOMAIN fs = DOMAIN before
          /\ \A p \in DOMAIN before :
                /\ fs[p].content = before[p].content /\ fs[p].mtime = before[p].mtime
                /\ p \notin NonDefaultFiles(before) => fs[p] = before[p]
    /\ (pc = "perms" /\ returned # NoValue) =>
          /\ error = ""
          /\ Handled.path \in NonDefaultFiles(before)
          /\ fs[Handled.path].mode # before[Handled.path].mode <=> returned.choice = <<"Y">>
          /\ returned.choice = <<"Y">> => Handled.path \notin NonDefaultFiles(fs)

\* with set_default_attributes True and the default rwsr-sr-t, two files of other
\* permissions have been given the default
C15_Witness ==
    /\ StageOver("perms") /\ Flag("set_default_attributes") = PyTrue
    /\ configuration.default_file_access_rights = <<"r", "w", "s", "r", "-", "s", "r", "-", "t">>
    /\ Cardinality(NonDefaultFiles(before)) = 2
    /\ NonDefaultFiles(fs) = {}

\* c is one of the configured problematic characters
Problematic(c) == ListHas(configuration.problematic_chars, <<c>>)

\* the name holds a problematic character
HasProblematic(name) == \E i \in 1..Len(name) : Problematic(name[i])

\* the path of p with its filename cleaned
CleanPath(p) == PathJoin(Dirname(p), clean_filename(Basename(p)))

\* C16: for the filename of every file there is, clean_filename gives a name of the same
\* length that holds no problematic character and has every other character as it was;
\* and with rename True, when the name stage has gone through its loop no filename holds a
\* problematic character, nothing was asked, and the files are those of the start of the
\* stage, each in its directory, under its cleaned filename, with the content, mode and
\* time of a file of that directory that had that cleaned filename.
C16_NamesSanitized ==
    /\ configuration # NoValue =>
          \A p \in DOMAIN fs :
              LET name == Basename(p)
                  clean == clean_filename(name)
              IN /\ Len(clean) = Len(name)
                 /\ ~HasProblematic(clean)
                 /\ \A i \in 1..Len(name) : ~Problematic(name[i]) => clean[i] = name[i]
    /\ (StageOver("rename") /\ Flag("rename") = PyTrue) =>
          /\ prompts = 0
          /\ \A p \in DOMAIN fs : ~HasProblematic(Basename(p))
          /\ DOMAIN fs = {CleanPath(p) : p \in DOMAIN before}
          /\ \A p \in DOMAIN fs : \E q \in DOMAIN before : CleanPath(q) = p /\ fs[p] = before[q]

\* with rename True and the problematic characters * and ?, the files *?, d/x*x and * have
\* been renamed in their directories
C16_Witness ==
    /\ StageOver("rename") /\ Flag("rename") = PyTrue
    /\ Len(configuration.problematic_chars) = 2
    /\ configuration.substitute_char = <<"_">>
    /\ DOMAIN before = {<<"m", "/", "*", "?">>, <<"m", "/", "d", "/", "x", "*", "x">>,
                         <<"a", "/", "*">>}
    /\ DOMAIN fs = {<<"m", "/", "_", "_">>, <<"m", "/", "d", "/", "x", "_", "x">>,
                     <<"a", "/", "_">>}

\* the flag that governs the stage the run is at, for the two stages that resolve groups
GroupPolicy == IF pc = "dups" THEN Flag("replace_old_version") ELSE Flag("replace_new_version")

\* the key of the group of a record in the stage the run is at: fingerprint or filename
GroupKey(file) == IF pc = "dups" THEN file.md5_hash ELSE filename(file)

\* the paths of the records of the snapshot that share the key of the record
GroupPaths(file) ==
    {all_files[i].path : i \in {j \in 1..Len(all_files) : GroupKey(all_files[j]) = GroupKey(file)}}

GroupIn(f, p) == IF pc = "dups" THEN SameHash(f, p) ELSE SameName(f, p)

\* the groups of two or more files of filesystem f
Conflicts(f) == {G \in {GroupIn(f, p) : p \in DOMAIN f} : Cardinality(G) >= 2}

\* C18: in the duplicate stage and in the same-name stage, a file that was alone in its
\* group when the stage started is there, untouched; a survivor prompt lists exactly the
\* files of one group of two or more; no more prompts are issued than there are such
\* groups; and no file is deleted a second time.
C18_SingletonsLeftAlone ==
    pc \in {"dups", "names"} =>
        /\ \A p \in DOMAIN before :
              Cardinality(GroupIn(before, p)) = 1 => (p \in DOMAIN fs /\ fs[p] = before[p])
        /\ prompt # NoValue =>
              /\ prompt.kind = "select"
              /\ Range(prompt.displayed) \in Conflicts(before)
        /\ prompts <= Cardinality(Conflicts(before))
        /\ error # "FileNotFoundError"

\* the same-name stage is over: it has asked once, a file of a group of two is gone, and a
\* file alone in its group is there
C18_Witness ==
    /\ StageOver("names") /\ prompts = 1
    /\ \E p \in DOMAIN before : Cardinality(SameName(before, p)) = 1
    /\ \E p \in DOMAIN before \ DOMAIN fs : Cardinality(SameName(before, p)) = 2

\* the group the loop of the duplicate or same-name stage is at, in the order in which the
\* stage deletes
GroupAtHand ==
    IF pc = "dups" THEN OldestFirst(get_all_files_by_hash(all_files[idx + 1].md5_hash))
    ELSE NewestFirst(get_all_files_by_name(filename(all_files[idx + 1])))

\* the position in the list of the first file after the one kept that cannot be deleted
FirstDenied(files) ==
    CHOOSE k \in 2..Len(files) :
        WriteDenied(files[k].path) /\ \A i \in 2..(k - 1) : ~WriteDenied(files[i].path)

ValidationFails ==
    \/ ~ini.config_file_accessible
    \/ \E path \in {ini.main_dir} \cup Range(ini.other_dirs) : path \notin ini.valid_directories

\* C20: if the configuration file or one of the directories is not accessible, the run
\* never gets past Configuration.create, which ends it with ValueError: no Configuration
\* and no App exist, no directory has been scanned and the filesystem is as it was.
C20_ValidationBeforeScan ==
    ValidationFails =>
        /\ pc = "create" /\ error \in {"", "ValueError"}
        /\ configuration = NoValue
        /\ main_dir_files = <<>> /\ other_dirs_files = <<>>
        /\ fs = before /\ mutated = <<>>

\* Configuration.create has raised because the other directory is not accessible, though
\* the main directory is and files are there
C20_Witness ==
    /\ error = "ValueError" /\ ini.config_file_accessible
    /\ ini.valid_directories = {ini.main_dir}
    /\ DOMAIN fs # {}

\* the bits of mode m are those that the characters of permission string p stand for
BitsOf(p, m) ==
    /\ m \in 0..4095
    /\ Bit(m, 256) <=> p[1] = "r"
    /\ Bit(m, 128) <=> p[2] = "w"
    /\ Bit(m, 64) <=> p[3] \in {"x", "s"}
    /\ Bit(m, 2048) <=> p[3] = "s"
    /\ Bit(m, 32) <=> p[4] = "r"
    /\ Bit(m, 16) <=> p[5] = "w"
    /\ Bit(m, 8) <=> p[6] \in {"x", "s"}
    /\ Bit(m, 1024) <=> p[6] = "s"
    /\ Bit(m, 4) <=> p[7] = "r"
    /\ Bit(m, 2) <=> p[8] = "w"
    /\ Bit(m, 1) <=> p[9] \in {"x", "t"}
    /\ Bit(m, 512) <=> p[9] = "t"

\* the permission stage has changed the mode of the file and the next stage has scanned it
RightsApplied ==
    /\ pc = "rename" /\ error = ""
    /\ mutated = <<5>>
    /\ Len(main_dir_files) = 1

\* C21: for every permission string of the format (r or -, w or -, x, s or - for owner and
\* group, x, t or - for the others), permission_string_to_numeric gives the mode that has
\* exactly the read, write and execute bits of the positions that are not -, with setuid,
\* setgid and sticky for s, s and t; the permission string of that mode is the string
\* again, also when the mode has gone through os.chmod and the next scan; and no other
\* string of the format gives the same mode.
C21_PermissionStringRoundTrip ==
    LET p == ini.default_file_access_rights
        m == permission_string_to_numeric(p)
    IN WellFormedRights(p) =>
          /\ PermissionStringOk(p)
          /\ BitsOf(p, m)
          /\ FileMode(m) = p
          /\ \A q \in FormatRights : q # p => permission_string_to_numeric(q) # m
          /\ RightsApplied =>
                /\ fs[main_dir_files[1].path].mode = m
                /\ main_dir_files[1].access_rights = p

\* the default rwsr-sr-t has been given to the file and read back by the next scan
C21_Witness ==
    /\ RightsApplied
    /\ ini.default_file_access_rights = <<"r", "w", "s", "r", "-", "s", "r", "-", "t">>
    /\ main_dir_files[1].access_rights = ini.default_file_access_rights

\* the fingerprints of the files of filesystem f
Fingerprints(f) == {md5(f[p].content) : p \in DOMAIN f}

\* C22: whatever the roots, the flag and the answers, while the run is in the duplicate
\* stage the fingerprints of the files there are, are those of the files there were when
\* the stage started: no content has lost its last copy.
C22_ContentPreserved == pc = "dups" => Fingerprints(fs) = Fingerprints(before)

\* C22 for roots that lie apart
C22_DisjointRoots ==
    (configuration # NoValue /\ configuration.main_dir = MainDir
        /\ configuration.other_dirs = <<AuxDir>>) => C22_ContentPreserved

\* C23: no os.remove, os.rename, os.chmod, shutil.move or shutil.copy is called on a path
\* at which there is no file: the run never ends with FileNotFoundError.
C23_NoStaleTarget == error # "FileNotFoundError"

\* C23 for roots that lie apart
C23_DisjointRoots ==
    (configuration # NoValue /\ configuration.main_dir = MainDir
        /\ configuration.other_dirs = <<AuxDir>>) => C23_NoStaleTarget

\* the files of filesystem f that are in directory d itself
FilesIn(f, d) == {p \in DOMAIN f : Dirname(p) = d}

\* C24: while the run is in the name stage, every directory holds as many files as it held
\* when the stage started: no rename has put one file in the place of another.
C24_RenameKeepsEveryFile ==
    pc = "rename" =>
        \A d \in {Dirname(p) : p \in DOMAIN before} :
            Cardinality(FilesIn(fs, d)) = Cardinality(FilesIn(before, d))

\* C25: when the merge stage starts no two files have the same filename; and while it
\* moves the files, with no failure, the number of files is what it was when the stage
\* started: no file has been moved over another.
C25_MergeNeverOverwrites ==
    /\ StageStarts("merge") =>
          \A p, q \in DOMAIN fs : p # q => Basename(p) # Basename(q)
    /\ (pc = "merge" /\ error = "" /\ Flag("copy") = PyFalse) =>
          Cardinality(DOMAIN fs) = Cardinality(DOMAIN before)

\* the paths of the files the stage started with, in scan order: those of the main
\* directory, then those of the other directories in their configured order, each in walk
\* order
ScanOrder ==
    Paths(from_directory(before, configuration.main_dir))
    \o Flatten([i \in 1..Len(configuration.other_dirs) |->
                   Paths(from_directory(before, configuration.other_dirs[i]))])

\* the files of group G with the least timestamp, or with the greatest if newest
Extreme(G, newest) ==
    {p \in G : \A q \in G : IF newest THEN before[q].mtime <= before[p].mtime
                             ELSE before[p].mtime <= before[q].mtime}

\* the file of S that comes first in scan order
FirstInScan(S) ==
    ScanOrder[CHOOSE i \in 1..Len(ScanOrder) :
                  ScanOrder[i] \in S /\ \A j \in 1..(i - 1) : ScanOrder[j] \notin S]

\* C26: with replace_old_version True, when the duplicate stage has gone through its loop
\* the files left are, of every group of one fingerprint, the file that comes first in scan
\* order among those of the least timestamp of the group, untouched, and nothing was
\* asked; likewise with replace_new_version True for the same-name stage, the groups of one
\* filename and the greatest timestamp.  What is deleted is thereby fixed by the
\* filesystem at the start of the stage, the configuration and the scan order.
C26_TieBrokenByScanOrder ==
    /\ (StageOver("dups") /\ Flag("replace_old_version") = PyTrue) =>
          /\ prompts = 0
          /\ DOMAIN fs = {FirstInScan(Extreme(SameHash(before, p), FALSE)) : p \in DOMAIN before}
          /\ \A p \in DOMAIN fs : fs[p] = before[p]
    /\ (StageOver("names") /\ Flag("replace_new_version") = PyTrue) =>
          /\ prompts = 0
          /\ DOMAIN fs = {FirstInScan(Extreme(SameName(before, p), TRUE)) : p \in DOMAIN before}
          /\ \A p \in DOMAIN fs : fs[p] = before[p]

\* with the other directories configured b, a: of three duplicates of one timestamp in
\* m/d, a and b, the one of m/d is left
C26_Witness ==
    /\ StageOver("dups") /\ configuration.other_dirs = <<SecondAuxDir, AuxDir>>
    /\ \E p \in DOMAIN before :
          /\ Cardinality(SameHash(before, p)) = 3
          /\ Cardinality(Extreme(SameHash(before, p), FALSE)) = 3
          /\ SameHash(before, p) \cap DOMAIN fs = {<<"m", "/", "d", "/", "x">>}

\* with the other directories configured b, a: of two namesakes of one timestamp in a and
\* b, the one of b is left
C26_NamesakesWitness ==
    /\ StageOver("names") /\ configuration.other_dirs = <<SecondAuxDir, AuxDir>>
    /\ DOMAIN before = {<<"a", "/", "x">>, <<"b", "/", "x">>}
    /\ Cardinality(Extreme(DOMAIN before, TRUE)) = 2
    /\ DOMAIN fs = {<<"b", "/", "x">>}

\* the exceptions that filesystem operations raise
FilesystemErrors ==
    {"FileNotFoundError", "PermissionError", "IsADirectoryError", "NotADirectoryError",
     "FileExistsError", "SameFileError", "Error"}

\* C27: when every prompt is answered in the end with one of its options, App.run
\* completes its seven stages, unless a filesystem operation fails.
C27_RunCompletes == <>(pc = "done" \/ error \in FilesystemErrors)

\* C27 for default permission strings that pass the assertions
C27_ValidRights ==
    PermissionStringOk(ini.default_file_access_rights) => C27_RunCompletes

\* C27, the count of the records: the loop of a stage is at a record of the snapshot or at
\* its end, and each step of it goes on by one record or leaves the position and waits
\* for an answer
C27_EachRecordOnce ==
    [][StageNumber(pc) > 0 =>
          /\ idx <= Len(all_files)
          /\ pc' = pc => idx' \in {idx, idx + 1}
          /\ (pc' = pc /\ idx' = idx) => (prompt' # prompt \/ reprompted' # reprompted \/ error' # "")
      ]_vars

\* the filename of p ends with a configured suffix that is not the empty string
EndsWithNonEmptySuffix(p) ==
    \E i \in 1..Len(configuration.temp_file_suffixes) :
        /\ configuration.temp_file_suffixes[i] # <<>>
        /\ EndsWith(Basename(p), configuration.temp_file_suffixes[i])

\* C28: in the temporary-file stage, a file is taken for temporary only if its filename
\* ends with a configured suffix that is not empty, and only such a file is asked about or
\* deleted; with an empty temp_file_suffixes value the stage asks nothing and deletes
\* nothing.
C28_EmptySuffixMatchesNothing ==
    pc = "temp" =>
        /\ \A i \in 1..Len(all_files) :
               is_temp_file(all_files[i]) => EndsWithNonEmptySuffix(all_files[i].path)
        /\ \A p \in DOMAIN before \ DOMAIN fs : EndsWithNonEmptySuffix(p)
        /\ ini.temp_file_suffixes = <<>> => (fs = before /\ prompts = 0)

\* C28 for values of temp_file_suffixes without an empty entry
C28_NoEmptyEntry ==
    (configuration # NoValue /\ ~ListHas(configuration.temp_file_suffixes, <<>>))
        => C28_EmptySuffixMatchesNothing

====
